---- MODULE Spec2Model ----
(***************************************************************************)
(* celerymon: the event-to-metric reduction of src/__main__.py.            *)
(*                                                                         *)
(* State: the task store `tuids` (an ExpiringDict: an insertion-ordered    *)
(* dict whose entries carry the wall-clock time they were set), the        *)
(* process-wide set `heartbeats`, the wall clock, and the positions of the *)
(* two long-lived greenlets (Collector, Submitter).                        *)
(*                                                                         *)
(* gevent greenlets are cooperative: a spawned handler runs from its first *)
(* to its last statement without another greenlet running in between       *)
(* unless it blocks; task_handler and worker_heartbeat do not block, and   *)
(* gevent starts spawned greenlets in spawn order, so event_dispatcher's   *)
(* spawn and the handler's run are one step here, except in SpecStream,    *)
(* where the hub's queue of spawned handlers is explicit.  The Submitter   *)
(* blocks (sleep, broker reads, metric sink writes), so it is a sequence   *)
(* of steps between which handlers run.                                    *)
(***************************************************************************)
EXTENDS Integers, Sequences, FiniteSets, TLC

\* ------------------------------------------------------------------ bounds
\* tuids = ExpiringDict(max_len=10240, max_age_seconds=60*60*24*7), scaled.
MaxLen == 2
MaxAge == 2
\* Largest event timestamp of a scripted run, its length, largest queue depth.
MaxTs == 2
MaxRun == 3
MaxDepth == 1

\* The wall clock stops where an entry set at 0 is stale and one set at 1 is not.
MaxTime == MaxAge

UUIDs == {"u1", "u2", "u3"}
Names == {"add", ""}
Hostnames == {"w1", "w2"}
Queues == {"default", "priority"}

\* ------------------------------------------------------------------ events
\* An event is a Python dict: a record whose DOMAIN is the set of keys present.
TerminalTypes ==
    {"task-succeeded", "task-failed", "task-retried", "task-rejected", "task-revoked"}
TaskTypes == TerminalTypes \cup {"task-sent", "task-received", "task-started"}
WorkerTypes == {"worker-heartbeat", "worker-online"}
\* Types that carry the task name in Celery's event schema.
NamedTypes == {"task-sent", "task-received"}

\* Well-formed task events of the given identifiers and timestamps.
NamedEvents(uuids, stamps) ==
    {[type |-> ty, uuid |-> u, name |-> n, timestamp |-> ts] :
        ty \in NamedTypes, u \in uuids, n \in Names, ts \in stamps}
PlainEvents(uuids, stamps) ==
    {[type |-> ty, uuid |-> u, timestamp |-> ts] :
        ty \in TaskTypes \ NamedTypes, u \in uuids, ts \in stamps}

\* Payloads with one required key missing.
NoUuidEvents ==
    {[type |-> ty, name |-> "add", timestamp |-> 1] : ty \in NamedTypes}
      \cup {[type |-> ty, timestamp |-> 1] : ty \in TaskTypes \ NamedTypes}
NoNameEvents ==
    {[type |-> "task-received", uuid |-> u, timestamp |-> 1] : u \in UUIDs}
NoTimestampEvents ==
    {[type |-> ty, uuid |-> "u1", name |-> "add"] : ty \in NamedTypes}
      \cup {[type |-> ty, uuid |-> "u1"] : ty \in TaskTypes \ NamedTypes}
MalformedEvents == NoUuidEvents \cup NoNameEvents \cup NoTimestampEvents

\* The task events of the store's specification: every identifier, one timestamp.
TaskEvents == NamedEvents(UUIDs, {1}) \cup PlainEvents(UUIDs, {1}) \cup MalformedEvents

\* The task events of a scripted run: one identifier, every timestamp.
RunEvents == NamedEvents({"u1"}, 0 .. MaxTs) \cup PlainEvents({"u1"}, 0 .. MaxTs)

WorkerEvents ==
    {[type |-> ty, hostname |-> h, timestamp |-> 1] : ty \in WorkerTypes, h \in Hostnames}
      \cup {[type |-> ty, timestamp |-> 1] : ty \in WorkerTypes}
OtherEvents == {[type |-> "worker-offline", hostname |-> "w1", timestamp |-> 1]}
Events == TaskEvents \cup RunEvents \cup WorkerEvents \cup OtherEvents

NoEvent == [type |-> "none"]

Has(event, key) == key \in DOMAIN event

\* ------------------------------------------------------------------ state
VARIABLES
    tuids,       \* ExpiringDict: sequence of [key, value, set_time], insertion order
    now,         \* time.time()
    heartbeats,  \* the global set of hostnames
    colPc,       \* Collector._run: "connect", "capture", "retry", "done"
    subPc,       \* Submitter._run: position in the cycle
    last,        \* the input consumed by the last step (an event, a broker read)
    out,         \* the metrics the last step emitted, in order
    log,         \* what the last step logged: "none", "error", "exception", "uncaught"
    dropped,     \* history: the entries the last step removed from tuids
    cycle,       \* history: what the current Submitter cycle polled, emitted, committed
    seen,        \* history: heartbeat events handled per hostname since the last reset
    trace,       \* history: the handled events of a scripted run, with their metrics
    spawned      \* the greenlets gevent.spawn has scheduled and the hub has not run yet

vars ==
    <<tuids, now, heartbeats, colPc, subPc, last, out, log, dropped, cycle, seen, trace,
      spawned>>

\* A step that consumes no event, emits and logs nothing.
Quiet == last' = [type |-> "none"] /\ out' = <<>> /\ log' = "none" /\ dropped' = {}

\* ------------------------------------------------------------ ExpiringDict
\* expiringdict.ExpiringDict subclasses OrderedDict and stores (value, set_time).
Keys(d) == {d[i].key : i \in 1 .. Len(d)}
Item(d, k) == d[CHOOSE i \in 1 .. Len(d) : d[i].key = k]

\* OrderedDict.__delitem__ (ExpiringDict does not override it): no age check.
Delete(d, k) == SelectSeq(d, LAMBDA item : item.key # k)

\* The age test of __contains__ and __getitem__: time.time() - set_time < max_age.
IsFresh(item, t) == t - item.set_time < MaxAge

\* __contains__: TRUE only for a key that is present and not older than max_age.
Contains(d, k, t) == k \in Keys(d) /\ IsFresh(Item(d, k), t)

\* The dict after __contains__ or __getitem__ at time t: a stale entry is deleted.
Purge(d, k, t) ==
    IF k \in Keys(d) /\ ~IsFresh(Item(d, k), t) THEN Delete(d, k) ELSE d

\* Mutant: popitem() with its default last=True drops the newest entry.
PopLast(d) == IF d = <<>> THEN d ELSE SubSeq(d, 1, Len(d) - 1)

\* popitem(last=False), its KeyError on an empty dict swallowed.
PopFirst(d) == IF d = <<>> THEN d ELSE Tail(d)

\* __setitem__ (what tuids.update calls): at max_len drop the key itself if it is
\* there and fresh, else the first entry in order; then OrderedDict.__setitem__,
\* which keeps the position of a key that is already present.
SetItem(d, k, v, t) ==
    LET room == IF Len(d) = MaxLen
                THEN IF Contains(d, k, t) THEN Delete(d, k) ELSE PopFirst(Purge(d, k, t))
                ELSE d
        item == [key |-> k, value |-> v, set_time |-> t]
    IN  IF k \in Keys(room)
        THEN [i \in 1 .. Len(room) |-> IF room[i].key = k THEN item ELSE room[i]]
        ELSE Append(room, item)

\* Mutant: the update goes through __setitem__, which stamps the entry anew.
SetStartedTouch(d, k, ts) ==
    [i \in 1 .. Len(d) |->
        IF d[i].key = k
        THEN [d[i] EXCEPT !.value.started = ts, !.set_time = now]
        ELSE d[i]]

\* tuids[uuid]['started'] = ts: the value dict is mutated in place, set_time is not.
SetStarted(d, k, ts) ==
    [i \in 1 .. Len(d) |-> IF d[i].key = k THEN [d[i] EXCEPT !.value.started = ts] ELSE d[i]]

\* ------------------------------------------------------------ task_handler
\* event['type'][5:] on the eight types routed to task_handler.
CName(type) ==
    CASE type = "task-succeeded" -> "succeeded"
      [] type = "task-sent" -> "sent"
      [] type = "task-received" -> "received"
      [] type = "task-started" -> "started"
      [] type = "task-failed" -> "failed"
      [] type = "task-rejected" -> "rejected"
      [] type = "task-revoked" -> "revoked"
      [] type = "task-retried" -> "retried"

TerminalNames == {"succeeded", "failed", "retried", "rejected", "revoked"}

\* A duration is None (<<>>) or a number (<<n>>); `duration or 0.`
OrZero(duration) ==
    IF duration = <<>> THEN 0 ELSE IF duration[1] = 0 THEN 0 ELSE duration[1]

TaskStats(task, event, duration) ==
    [metric |-> "task", task |-> task, event |-> event, duration |-> duration]

\* Mutant: no try/except, the exception leaves task_handler.
RaisedUncaught(d) == [tuids |-> d, out |-> <<>>, log |-> "uncaught"]

\* The ways out of task_handler: an exception caught and logged at line 112, the
\* return of lines 86 and 93, the log.error and return of lines 97-98, and the
\* TaskStats emission of line 107.
Raised(d) == [tuids |-> d, out |-> <<>>, log |-> "exception"]
Returned(d) == [tuids |-> d, out |-> <<>>, log |-> "none"]
Anomaly(d) == [tuids |-> d, out |-> <<>>, log |-> "error"]
Emitted(d, name, cname, duration) ==
    [tuids |-> d, out |-> <<TaskStats(name, cname, OrZero(duration))>>, log |-> "none"]

\* Mutant: no presence check, so the lookup of line 87 or 94 raises KeyError.
MissingRaises(d, uuid, t) == Raised(Purge(d, uuid, t))

\* `if uuid not in tuids: return` (lines 85-86 and 92-93), the test being false.
Missing(d, uuid, t) == Returned(Purge(d, uuid, t))

\* Mutant: no test of the name.
NoNameNever(name) == FALSE

\* `not name` of line 96.
NoName(name) == name = ""

\* Mutant: 'sent' is in the list of line 100.
IsTerminalOrSent(cname) == cname \in TerminalNames \cup {"sent"}

\* `cname in [...]` of line 100.
IsTerminal(cname) == cname \in TerminalNames

\* Mutant: no `del tuids[uuid]`.
TerminateKeeps(d, t, event, cname, uuid, name, duration) ==
    IF ~Contains(d, uuid, t) THEN Raised(Purge(d, uuid, t))
    ELSE LET started == Item(d, uuid).value.started
         IN  IF started # 0
             THEN IF ~Has(event, "timestamp") THEN Raised(d)
                  ELSE Emitted(d, name, cname, <<event.timestamp - started>>)
             ELSE Emitted(d, name, cname, duration)

\* Mutant: `del tuids[uuid]` comes before the duration is computed.
TerminateDeleteFirst(d, t, event, cname, uuid, name, duration) ==
    IF ~Contains(d, uuid, t) THEN Raised(Purge(d, uuid, t))
    ELSE LET started == Item(d, uuid).value.started
         IN  IF started # 0
             THEN IF ~Has(event, "timestamp") THEN Raised(Delete(d, uuid))
                  ELSE Emitted(Delete(d, uuid), name, cname, <<event.timestamp - started>>)
             ELSE Emitted(Delete(d, uuid), name, cname, duration)

\* Lines 100-111 for a terminal event, entered with the dict d at time t.
Terminate(d, t, event, cname, uuid, name, duration) ==
    IF ~Contains(d, uuid, t) THEN Raised(Purge(d, uuid, t))
    ELSE LET started == Item(d, uuid).value.started
         IN  IF started # 0
             THEN IF ~Has(event, "timestamp") THEN Raised(d)
                  ELSE Emitted(Delete(d, uuid), name, cname, <<event.timestamp - started>>)
             ELSE Emitted(Delete(d, uuid), name, cname, duration)

\* Lines 96-111, entered with the dict d at time t.
Finish(d, t, event, cname, uuid, name, duration) ==
    IF NoName(name) THEN Anomaly(d)
    ELSE IF IsTerminal(cname) THEN Terminate(d, t, event, cname, uuid, name, duration)
    ELSE Emitted(d, name, cname, duration)

\* Mutant: the record goes into a plain dict, which has no max_len.
ReceivedUnbounded(d, t, event, uuid) ==
    IF ~Has(event, "name") \/ ~Has(event, "timestamp") THEN Raised(d)
    ELSE Finish(Append(Delete(d, uuid),
                       [key |-> uuid,
                        value |-> [name |-> event.name, received |-> event.timestamp,
                                   started |-> 0],
                        set_time |-> t]),
                t, event, "received", uuid, event.name, <<>>)

\* Lines 82-83.
Received(d, t, event, uuid) ==
    IF ~Has(event, "name") \/ ~Has(event, "timestamp") THEN Raised(d)
    ELSE Finish(SetItem(d, uuid,
                        [name |-> event.name, received |-> event.timestamp, started |-> 0],
                        t),
                t, event, "received", uuid, event.name, <<>>)

\* Lines 87-90, the record found at line 85.
Started(d, t, event, uuid) ==
    IF ~Contains(d, uuid, t) THEN Raised(Purge(d, uuid, t))
    ELSE IF ~Has(event, "timestamp") THEN Raised(d)
    ELSE LET value == Item(d, uuid).value
         IN  Finish(SetStarted(d, uuid, event.timestamp), t, event, "started", uuid,
                    value.name, <<event.timestamp - value.received>>)

\* Line 94 and on, the record found at line 92.
Other(d, t, event, cname, uuid) ==
    IF ~Contains(d, uuid, t) THEN Raised(Purge(d, uuid, t))
    ELSE Finish(d, t, event, cname, uuid, Item(d, uuid).value.name, <<>>)

\* task_handler(event) on the dict d; t1 is the clock at its first access of the
\* dict, t2 >= t1 the clock at the later ones.
TaskHandler(d, t1, t2, event) ==
    LET cname == CName(event.type)
    IN  IF ~Has(event, "uuid") THEN Raised(d)
        ELSE IF cname = "received" THEN Received(d, t1, event, event.uuid)
        ELSE IF ~Contains(d, event.uuid, t1) THEN Missing(d, event.uuid, t1)
        ELSE IF cname = "started" THEN Started(d, t2, event, event.uuid)
        ELSE Other(d, t2, event, cname, event.uuid)

\* worker_heartbeat(event): a missing hostname raises in the spawned greenlet,
\* which dies alone.
WorkerHeartbeat(hb, event) ==
    IF Has(event, "hostname") THEN hb \cup {event.hostname} ELSE hb

\* ------------------------------------------------------------------ Init
Init ==
    /\ tuids = <<>>
    /\ now = 0
    /\ heartbeats = {}
    /\ colPc = "connect"
    /\ subPc = "sleep"
    /\ last = NoEvent
    /\ out = <<>>
    /\ log = "none"
    /\ dropped = {}
    /\ cycle = [state |-> "idle", polled |-> <<>>, emitted |-> <<>>, commits |-> <<>>]
    /\ seen = [h \in Hostnames |-> 0]
    /\ trace = <<>>
    /\ spawned = <<>>

\* ------------------------------------------------------------ the two loops
\* Mutant: `except Exception: return`, every exception ends the loop.
OnExceptionStop(fatal, resume) == "done"

\* The except clauses of lines 127-130 and 159-162: KeyboardInterrupt and
\* SystemExit return, any other exception is logged and the loop goes on.
OnException(fatal, resume) == IF fatal THEN "done" ELSE resume

\* ------------------------------------------------------------ Collector
\* celery.connection() and Receiver(...) succeed: capture starts.
CollectorConnect ==
    /\ colPc = "connect"
    /\ colPc' = "capture"
    /\ Quiet
    /\ UNCHANGED <<tuids, now, heartbeats, subPc, cycle, seen, trace, spawned>>

\* Lines 129-130: the connection, the receiver or event_dispatcher raises; the
\* exception is logged and the loop is about to go round.
CollectorFail ==
    /\ colPc \in {"connect", "capture"}
    /\ colPc' = OnException(FALSE, "retry")
    /\ last' = [type |-> "error", loop |-> "Collector"]
    /\ out' = <<>>
    /\ log' = "exception"
    /\ dropped' = {}
    /\ UNCHANGED <<tuids, now, heartbeats, subPc, cycle, seen, trace, spawned>>

\* `while True` of line 119 after line 130: another connection attempt starts.
CollectorRetry ==
    /\ colPc = "retry"
    /\ colPc' = "connect"
    /\ last' = [type |-> "retry"]
    /\ out' = <<>>
    /\ log' = "none"
    /\ dropped' = {}
    /\ UNCHANGED <<tuids, now, heartbeats, subPc, cycle, seen, trace, spawned>>

\* Lines 127-128: KeyboardInterrupt or SystemExit inside the try block.
CollectorExit ==
    /\ colPc \in {"connect", "capture"}
    /\ colPc' = OnException(TRUE, "retry")
    /\ last' = [type |-> "signal", loop |-> "Collector"]
    /\ out' = <<>>
    /\ log' = "none"
    /\ dropped' = {}
    /\ UNCHANGED <<tuids, now, heartbeats, subPc, cycle, seen, trace, spawned>>

Collector == CollectorConnect \/ CollectorFail \/ CollectorRetry \/ CollectorExit

\* The handler reads the clock again after its presence check only when the
\* check found the record.
ClockSteps(event) ==
    IF /\ event.type \in TaskTypes \ {"task-received"}
       /\ Has(event, "uuid")
       /\ Contains(tuids, event.uuid, now)
       /\ now < MaxTime
    THEN {0, 1} ELSE {0}

Bump(n) == IF n < 2 THEN n + 1 ELSE n

\* The entries of d whose key d2 no longer holds.
Removed(d, d2) == {d[i] : i \in {j \in 1 .. Len(d) : d[j].key \notin Keys(d2)}}

\* Mutant: the handlers dict has no 'worker-online' key.
HandlersNoOnline(type) ==
    IF type \in TaskTypes THEN "task_handler"
    ELSE IF type = "worker-heartbeat" THEN "worker_heartbeat"
    ELSE "None"

\* handlers.get(event['type'], None) of lines 51-63.
Handlers(type) ==
    IF type \in TaskTypes THEN "task_handler"
    ELSE IF type \in WorkerTypes THEN "worker_heartbeat"
    ELSE "None"

\* event_dispatcher(event) and the run of the greenlet it spawns.
Dispatch(event) ==
    /\ colPc = "capture"
    /\ last' = event
    /\ UNCHANGED <<colPc, subPc, cycle>>
    /\ IF Handlers(event.type) = "task_handler"
       THEN \E dt \in ClockSteps(event) :
              \E r \in {TaskHandler(tuids, now, now + dt, event)} :
                  /\ tuids' = r.tuids
                  /\ out' = r.out
                  /\ log' = r.log
                  /\ dropped' = Removed(tuids, r.tuids)
                  /\ now' = now + dt
                  /\ UNCHANGED <<heartbeats, seen>>
       ELSE IF Handlers(event.type) = "worker_heartbeat"
       THEN /\ heartbeats' = WorkerHeartbeat(heartbeats, event)
            /\ seen' = IF Has(event, "hostname")
                       THEN [seen EXCEPT ![event.hostname] = Bump(@)]
                       ELSE seen
            /\ out' = <<>>
            /\ log' = IF Has(event, "hostname") THEN "none" ELSE "uncaught"
            /\ dropped' = {}
            /\ UNCHANGED <<tuids, now>>
       ELSE /\ out' = <<>>
            /\ log' = "none"
            /\ dropped' = {}
            /\ UNCHANGED <<tuids, now, heartbeats, seen>>

\* time.time() advances.
Tick ==
    /\ now < MaxTime
    /\ now' = now + 1
    /\ Quiet
    /\ UNCHANGED <<tuids, heartbeats, colPc, subPc, cycle, seen, trace, spawned>>

\* ------------------------------------------------------------ Submitter
QueueStats(queue, count) == [metric |-> "queue", queue |-> queue, count |-> count]
WorkerStats(count) == [metric |-> "worker", count |-> count]

\* What redis.itercounts() can yield: (name, count) pairs of distinct queues.
QueueLists ==
    {<<>>}
      \cup {<<<<q, c>>>> : q \in Queues, c \in 0 .. MaxDepth}
      \cup {pair \in {<<<<q1, c1>>, <<q2, c2>>>> :
                          q1 \in Queues, q2 \in Queues,
                          c1 \in 0 .. MaxDepth, c2 \in 0 .. MaxDepth} :
               pair[1][1] # pair[2][1]}

\* str(name) of a queue name that is a str.
Str(name) == name

\* Mutant: `if count:` before the report skips the queues of depth 0.
QueueReportsSkipZero(counts, k) ==
    LET kept == SelectSeq(SubSeq(counts, 1, k), LAMBDA pair : pair[2] # 0)
    IN  [i \in 1 .. Len(kept) |-> QueueStats(Str(kept[i][1]), kept[i][2])]

\* The loop of lines 140-143 over the first k pairs.
QueueReports(counts, k) == [i \in 1 .. k |-> QueueStats(Str(counts[i][1]), counts[i][2])]

\* len(heartbeats) of line 145.
WorkerCount(hb) == Cardinality(hb)

\* gevent.sleep(freq) returns: a cycle starts.
SubmitterWake ==
    /\ subPc = "sleep"
    /\ subPc' = "queues"
    /\ cycle' = [state |-> "running", polled |-> <<>>, emitted |-> <<>>, commits |-> <<>>]
    /\ Quiet
    /\ UNCHANGED <<tuids, now, heartbeats, colPc, seen, trace, spawned>>

\* Lines 140-143 run to the end of the iterable.
SubmitterQueues ==
    /\ subPc = "queues"
    /\ \E counts \in QueueLists :
         /\ last' = [type |-> "itercounts", counts |-> counts]
         /\ out' = QueueReports(counts, Len(counts))
         /\ log' = "none"
         /\ dropped' = {}
         /\ cycle' = [cycle EXCEPT !.polled = counts, !.emitted = @ \o out']
    /\ subPc' = "workers"
    /\ UNCHANGED <<tuids, now, heartbeats, colPc, seen, trace, spawned>>

\* Lines 140-143 raise (broker or sink error) after k reports: line 161.
SubmitterQueuesFail ==
    /\ subPc = "queues"
    /\ \E counts \in QueueLists \ {<<>>} : \E k \in 0 .. Len(counts) - 1 :
         /\ last' = [type |-> "itercounts", counts |-> counts]
         /\ out' = QueueReports(counts, k)
         /\ log' = "exception"
         /\ dropped' = {}
         /\ cycle' = [cycle EXCEPT !.state = "failed", !.polled = counts,
                                   !.emitted = @ \o out']
    /\ subPc' = OnException(FALSE, "sleep")
    /\ UNCHANGED <<tuids, now, heartbeats, colPc, seen, trace, spawned>>

\* Line 145: WorkerStats(count=len(heartbeats)); the sink may block here.
SubmitterWorkers ==
    /\ subPc = "workers"
    /\ out' = <<WorkerStats(WorkerCount(heartbeats))>>
    /\ log' = "none"
    /\ dropped' = {}
    /\ cycle' = [cycle EXCEPT !.emitted = @ \o out']
    /\ subPc' = "reset"
    /\ last' = NoEvent
    /\ UNCHANGED <<tuids, now, heartbeats, colPc, seen, trace, spawned>>

\* Line 148: heartbeats = set().
SubmitterReset ==
    /\ subPc = "reset"
    /\ heartbeats' = {}
    /\ seen' = [h \in Hostnames |-> 0]
    /\ subPc' = "commitQueue"
    /\ Quiet
    /\ UNCHANGED <<tuids, now, colPc, cycle, trace, spawned>>

\* The cycle emitted a metric of the kind.
HasMetric(emitted, kind) == \E i \in 1 .. Len(emitted) : emitted[i].metric = kind

\* How a commit() of lines 151 and 156 can end short of another exception:
\* AttributeError is raised when the sink holds nothing of the kind to commit,
\* which it cannot be when this cycle emitted a metric of the kind.
CommitOutcomes(emitted, kind) ==
    IF HasMetric(emitted, kind) THEN {"ok"} ELSE {"ok", "AttributeError"}

\* Mutant: no `except AttributeError`, the error goes to line 161.
AfterCommitUncaught(outcome, next) == IF outcome = "AttributeError" THEN "sleep" ELSE next

\* `except AttributeError: pass` of lines 152-153 and 157-158.
AfterCommit(outcome, next) == next

\* Lines 150-153: QueueStats.commit().
SubmitterCommitQueue ==
    /\ subPc = "commitQueue"
    /\ \E outcome \in CommitOutcomes(cycle.emitted, "queue") :
         /\ last' = [type |-> "commit", kind |-> "queue", outcome |-> outcome]
         /\ subPc' = AfterCommit(outcome, "commitWorker")
         /\ cycle' = [cycle EXCEPT !.commits = Append(@, outcome)]
    /\ out' = <<>>
    /\ log' = "none"
    /\ dropped' = {}
    /\ UNCHANGED <<tuids, now, heartbeats, colPc, seen, trace, spawned>>

\* Lines 155-158: WorkerStats.commit(); the cycle is complete.
SubmitterCommitWorker ==
    /\ subPc = "commitWorker"
    /\ \E outcome \in CommitOutcomes(cycle.emitted, "worker") :
         /\ last' = [type |-> "commit", kind |-> "worker", outcome |-> outcome]
         /\ subPc' = AfterCommit(outcome, "sleep")
         /\ cycle' = [cycle EXCEPT !.state = "completed", !.commits = Append(@, outcome)]
    /\ out' = <<>>
    /\ log' = "none"
    /\ dropped' = {}
    /\ UNCHANGED <<tuids, now, heartbeats, colPc, seen, trace, spawned>>

\* Lines 161-162: any other exception of the sink is logged, the loop goes on.
SubmitterFail ==
    /\ subPc \in {"workers", "commitQueue", "commitWorker"}
    /\ subPc' = OnException(FALSE, "sleep")
    /\ cycle' = [cycle EXCEPT !.state = "failed"]
    /\ last' = NoEvent
    /\ out' = <<>>
    /\ log' = "exception"
    /\ dropped' = {}
    /\ UNCHANGED <<tuids, now, heartbeats, colPc, seen, trace, spawned>>

\* Lines 159-160: KeyboardInterrupt or SystemExit at a blocking call.
SubmitterExit ==
    /\ subPc \in {"sleep", "queues", "workers", "commitQueue", "commitWorker"}
    /\ subPc' = OnException(TRUE, "sleep")
    /\ last' = [type |-> "signal", loop |-> "Submitter"]
    /\ out' = <<>>
    /\ log' = "none"
    /\ dropped' = {}
    /\ UNCHANGED <<tuids, now, heartbeats, colPc, cycle, seen, trace, spawned>>

Submitter ==
    \/ SubmitterWake
    \/ SubmitterQueues
    \/ SubmitterQueuesFail
    \/ SubmitterWorkers
    \/ SubmitterReset
    \/ SubmitterCommitQueue
    \/ SubmitterCommitWorker
    \/ SubmitterFail
    \/ SubmitterExit

\* ------------------------------------------------------------ specifications
AnyEvent == \E event \in Events : Dispatch(event) /\ UNCHANGED <<trace, spawned>>
TaskEvent == \E event \in TaskEvents : Dispatch(event) /\ UNCHANGED <<trace, spawned>>
WorkerEvent ==
    \E event \in WorkerEvents \cup OtherEvents : Dispatch(event) /\ UNCHANGED <<trace, spawned>>

\* A scripted run: at most MaxRun events, each logged with what it emitted.
RunEvent ==
    /\ Len(trace) < MaxRun
    /\ \E event \in RunEvents :
         /\ Dispatch(event)
         /\ trace' = Append(trace, [event |-> event, out |-> out', at |-> now'])
    /\ UNCHANGED spawned

\* The whole program.
Next == Collector \/ AnyEvent \/ Tick \/ Submitter
Spec == Init /\ [][Next]_vars

\* The task store under every task event and the passing of time.
NextTasks == CollectorConnect \/ TaskEvent \/ Tick
SpecTasks == Init /\ [][NextTasks]_vars

\* The lifecycle of one task, event by event.
NextRun == CollectorConnect \/ RunEvent
SpecRun == Init /\ [][NextRun]_vars

\* The heartbeat set under worker events and the Submitter's cycle.
NextWorkers == CollectorConnect \/ WorkerEvent \/ Submitter
SpecWorkers == Init /\ [][NextWorkers]_vars

\* The events of a stream whose handlers wait in the hub's queue: two
\* identifiers, and payloads that make task_handler raise.
StreamEvents ==
    {[type |-> "task-received", uuid |-> u, name |-> "add", timestamp |-> 1] :
        u \in {"u1", "u2"}}
      \cup {e \in PlainEvents({"u1", "u2"}, {1}) :
                e.type \in {"task-started", "task-succeeded"}}
      \cup {[type |-> "task-started", timestamp |-> 1],
            [type |-> "task-received", uuid |-> "u1", timestamp |-> 1],
            [type |-> "task-started", uuid |-> "u1"]}

\* The entries of the trace of one kind ("spawn", "run"), in order.
Entries(kind) == SelectSeq(trace, LAMBDA entry : entry.kind = kind)

\* Mutant: the hub runs the greenlet that was spawned last.
NextSpawnedLast(q) == Len(q)

\* gevent.spawn (line 65) adds the greenlet's start to the hub's callbacks,
\* which the hub runs in the order they were added.
NextSpawned(q) == 1

RemoveAt(q, i) == SubSeq(q, 1, i - 1) \o SubSeq(q, i + 1, Len(q))

\* event_dispatcher(event) up to its return: the handler is scheduled.
StreamSpawn ==
    /\ colPc = "capture"
    /\ Len(Entries("spawn")) < MaxRun
    /\ \E event \in StreamEvents :
         /\ spawned' = Append(spawned, event)
         /\ trace' = Append(trace, [kind |-> "spawn", event |-> event,
                                    out |-> <<>>, log |-> "none"])
    /\ Quiet
    /\ UNCHANGED <<tuids, now, heartbeats, colPc, subPc, cycle, seen>>

\* The hub runs the next spawned handler to its end.
StreamRun ==
    /\ spawned # <<>>
    /\ \E i \in {NextSpawned(spawned)} :
         /\ Dispatch(spawned[i])
         /\ spawned' = RemoveAt(spawned, i)
         /\ trace' = Append(trace, [kind |-> "run", event |-> spawned[i],
                                    out |-> out', log |-> log'])

\* The handlers of a stream of events, run when the Collector yields to the hub.
NextStream == CollectorConnect \/ StreamSpawn \/ StreamRun
SpecStream == Init /\ [][NextStream]_vars

\* One identifier's task events among worker events and unrouted events.
RoutingEvents ==
    NamedEvents({"u1"}, {1}) \cup PlainEvents({"u1"}, {1}) \cup WorkerEvents \cup OtherEvents
RoutingEvent ==
    \E event \in RoutingEvents : Dispatch(event) /\ UNCHANGED <<trace, spawned>>
NextRouting == CollectorConnect \/ RoutingEvent
SpecRouting == Init /\ [][NextRouting]_vars

\* The two loops under errors and shutdown signals.  The loop statement after
\* line 130 is taken, and gevent.sleep(freq) returns unless a signal ends it.
LoopEvents == {[type |-> "worker-heartbeat", hostname |-> "w1", timestamp |-> 1]}
LoopEvent == \E event \in LoopEvents : Dispatch(event) /\ UNCHANGED <<trace, spawned>>
NextLoops == Collector \/ LoopEvent \/ Submitter
SpecLoops ==
    Init /\ [][NextLoops]_vars /\ WF_vars(CollectorRetry) /\ WF_vars(SubmitterWake)

\* ------------------------------------------------------------------ claims
\* The record of identifier u that a lookup at time t finds in d.
Tracked(d, u, t) == \E i \in 1 .. Len(d) : d[i].key = u /\ t - d[i].set_time < MaxAge

\* The last step handled a task event that carries its identifier.
Handled(types) == last.type \in types /\ Has(last, "uuid")

\* C1: a run received(U,t0), started(U,t1), succeeded(U,t2) with t0 <= t1 <= t2
\* (timestamp 0 included) of a named task, handled within the record's lifetime,
\* emits exactly the three metrics of durations 0, t1-t0 and t2-t1, in that
\* order, and leaves no entry for U in the store.
C1_LifecycleDurations ==
    (/\ Len(trace) = 3
     /\ trace[1].event.type = "task-received"
     /\ trace[1].event.name # ""
     /\ trace[2].event.type = "task-started"
     /\ trace[3].event.type = "task-succeeded"
     /\ trace[1].event.timestamp <= trace[2].event.timestamp
     /\ trace[2].event.timestamp <= trace[3].event.timestamp
     /\ trace[3].at - trace[1].at < MaxAge)
    => LET name == trace[1].event.name
           t0 == trace[1].event.timestamp
           t1 == trace[2].event.timestamp
           t2 == trace[3].event.timestamp
       IN  /\ trace[1].out = <<TaskStats(name, "received", 0)>>
           /\ trace[2].out = <<TaskStats(name, "started", t1 - t0)>>
           /\ trace[3].out = <<TaskStats(name, "succeeded", t2 - t1)>>
           /\ trace[1].event.uuid \notin Keys(tuids)

\* The same run with a started timestamp other than 0: what the code does do.
LifecycleDurationsNonZeroStart ==
    (/\ Len(trace) = 3
     /\ trace[1].event.type = "task-received"
     /\ trace[1].event.name # ""
     /\ trace[2].event.type = "task-started"
     /\ trace[2].event.timestamp # 0
     /\ trace[3].event.type \in TerminalTypes
     /\ trace[1].event.timestamp <= trace[2].event.timestamp
     /\ trace[2].event.timestamp <= trace[3].event.timestamp
     /\ trace[3].at - trace[1].at < MaxAge)
    => LET name == trace[1].event.name
           t0 == trace[1].event.timestamp
           t1 == trace[2].event.timestamp
           t2 == trace[3].event.timestamp
       IN  /\ trace[1].out = <<TaskStats(name, "received", 0)>>
           /\ trace[2].out = <<TaskStats(name, "started", t1 - t0)>>
           /\ trace[3].out = <<TaskStats(name, CName(trace[3].event.type), t2 - t1)>>
           /\ trace[1].event.uuid \notin Keys(tuids)

\* C3: a sent event whose identifier has no record emits one TaskMetric of event
\* "sent" and duration 0, its task name taken from the event payload.
C3_SentWithoutRecord ==
    (/\ Handled({"task-sent"})
     /\ Has(last, "name")
     /\ last.name # ""
     /\ ~Tracked(tuids, last.uuid, now))
    => out = <<TaskStats(last.name, "sent", 0)>>

\* C4: every TaskMetric task_handler emits has a duration that is a number >= 0.
C4_DurationNonNegative ==
    \A i \in 1 .. Len(out) : out[i].metric = "task" => out[i].duration >= 0

\* The records of d a lookup at time t finds, in order.
Findable(d, t) == SelectSeq(d, LAMBDA item : t - item.set_time < MaxAge)

StartedOrTerminal == {"task-started"} \cup TerminalTypes

\* C2: a started or terminal event for an identifier without a findable record
\* (never received, terminated, expired or evicted) emits no metric, raises and
\* logs nothing, and leaves the findable records of the store as they were.
C2_UnknownDropped ==
    [][(/\ last'.type \in StartedOrTerminal
        /\ Has(last', "uuid")
        /\ ~Tracked(tuids, last'.uuid, now))
       => /\ out' = <<>>
          /\ log' = "none"
          /\ Findable(tuids', now') = Findable(tuids, now)
          /\ Len(tuids') <= Len(tuids)]_vars

\* A terminal event was dropped while the store was full of other identifiers.
C2_Witness ==
    /\ Handled(TerminalTypes)
    /\ ~Tracked(tuids, last.uuid, now)
    /\ Len(tuids) = MaxLen
    /\ out = <<>>
    /\ log = "none"

\* C5: a record exists for U only while a received event for U has been handled
\* and no terminal event for U since: every terminal event handled for a tracked
\* U, whatever the record's name, deletes the record.
C5_TerminalDeletes ==
    [][(/\ last'.type \in TerminalTypes
        /\ Has(last', "uuid")
        /\ Has(last', "timestamp")
        /\ Tracked(tuids, last'.uuid, now))
       => last'.uuid \notin Keys(tuids')]_vars

\* The name task_handler resolves for an event is empty or missing.
ResolvedEmpty(event, d, t) ==
    IF event.type = "task-received"
    THEN ~Has(event, "name") \/ event.name = ""
    ELSE /\ Has(event, "uuid")
         /\ Tracked(d, event.uuid, t)
         /\ Item(d, event.uuid).value.name = ""

\* C6: a task event whose resolved name (the payload's for received, the record's
\* otherwise) is empty or missing emits no metric, and the handler ends normally.
C6_NoNameNoMetric ==
    [][(last'.type \in TaskTypes /\ ResolvedEmpty(last', tuids, now))
       => (out' = <<>> /\ log' \in {"error", "exception"})]_vars

\* A started event updated a nameless record and was dropped as an anomaly.
C6_Witness ==
    /\ Handled({"task-started"})
    /\ Has(last, "timestamp")
    /\ Tracked(tuids, last.uuid, now)
    /\ Item(tuids, last.uuid).value.name = ""
    /\ Item(tuids, last.uuid).value.started = last.timestamp
    /\ out = <<>>
    /\ log = "error"

\* C7: the store never holds more than MaxLen entries, and a received event for
\* an identifier without an entry, arriving at MaxLen entries, evicts exactly the
\* entry at the head of the insertion order and appends its own.
C7_CapacityEviction ==
    [][/\ Len(tuids') <= MaxLen
       /\ (/\ last'.type = "task-received"
           /\ DOMAIN last' = {"type", "uuid", "name", "timestamp"}
           /\ last'.uuid \notin Keys(tuids)
           /\ Len(tuids) = MaxLen)
          => /\ Len(tuids') = MaxLen
             /\ SubSeq(tuids', 1, MaxLen - 1) = Tail(tuids)
             /\ tuids'[MaxLen].key = last'.uuid
             /\ dropped' = {tuids[1]}]_vars

\* A received event evicted one entry of another identifier from the full store.
C7_Witness ==
    /\ Handled({"task-received"})
    /\ Len(tuids) = MaxLen
    /\ tuids[MaxLen].key = last.uuid
    /\ Cardinality(dropped) = 1
    /\ \A item \in dropped : item.key # last.uuid

\* C8: a record set by a received event at time T is not found by a started or
\* terminal event handled at a time >= T + MaxAge, and no step but a received
\* event for its identifier changes the time its age is measured from.
C8_AgeFromInsertion ==
    [][\A i \in 1 .. Len(tuids) :
         /\ (/\ last'.type \in StartedOrTerminal
             /\ Has(last', "uuid")
             /\ last'.uuid = tuids[i].key
             /\ now >= tuids[i].set_time + MaxAge)
            => /\ out' = <<>>
               /\ log' = "none"
               /\ tuids[i].key \notin Keys(tuids')
         /\ (/\ tuids[i].key \in Keys(tuids')
             /\ ~(/\ last'.type = "task-received"
                  /\ Has(last', "uuid")
                  /\ last'.uuid = tuids[i].key))
            => Item(tuids', tuids[i].key).set_time = tuids[i].set_time]_vars

\* A record that a started event had updated was, MaxAge later, not found.
C8_Witness ==
    /\ Handled(StartedOrTerminal)
    /\ out = <<>>
    /\ log = "none"
    /\ \E item \in dropped :
         /\ item.key = last.uuid
         /\ item.value.started # 0
         /\ now >= item.set_time + MaxAge

\* The hostnames that heartbeat events recorded since the last reset.
Recorded == {h \in Hostnames : seen[h] > 0}

\* C9: a Submitter cycle reports one QueueMetric per pair the queue-depth source
\* returned, depth 0 included, then one WorkerMetric whose count is the number
\* of distinct hostnames recorded since the last reset; the reset leaves the
\* heartbeat set empty.
C9_CycleReport ==
    [][/\ (subPc = "workers" /\ subPc' = "reset")
          => out' = <<WorkerStats(Cardinality(Recorded))>>
       /\ (subPc = "reset" /\ subPc' = "commitQueue") => heartbeats' = {}
       /\ cycle'.state = "completed"
          => \E n \in 0 .. Cardinality(Hostnames) :
               cycle'.emitted =
                   [i \in 1 .. Len(cycle'.polled) |->
                       QueueStats(cycle'.polled[i][1], cycle'.polled[i][2])]
                     \o <<WorkerStats(n)>>]_vars

\* Queues of depth 1 and 0 and three heartbeats of two hosts were reported.
C9_Witness ==
    /\ subPc = "reset"
    /\ seen = [h \in Hostnames |-> IF h = "w1" THEN 2 ELSE 1]
    /\ cycle.emitted = <<QueueStats("default", 1), QueueStats("priority", 0), WorkerStats(2)>>

\* C10: no heartbeat is lost between the Submitter's count and its reset: the
\* count the cycle reported is the size of the set at the moment it is cleared.
C10_NoHeartbeatLost ==
    [][(subPc = "reset" /\ subPc' = "commitQueue")
       => cycle.emitted[Len(cycle.emitted)] = WorkerStats(Cardinality(heartbeats))]_vars

\* C11: the heartbeat set is cleared at the end of every Submitter cycle, also of
\* a cycle that an exception of the queue source or of the sink ends before
\* line 148 (while reading the counters, emitting a metric).
C11_ResetEveryCycle ==
    [][(subPc \in {"queues", "workers"} /\ subPc' = "sleep") => heartbeats' = {}]_vars

\* C12: a commit that raises AttributeError (nothing of its kind to commit) is
\* passed over: nothing is logged, the cycle does not fail, the queue commit is
\* followed by the worker commit, and a cycle completes, after both commits, by
\* going to the next period's sleep.
C12_CommitTolerated ==
    [][/\ (last'.type = "commit" /\ last'.outcome = "AttributeError")
          => /\ log' = "none"
             /\ cycle'.state # "failed"
             /\ subPc' = IF last'.kind = "queue" THEN "commitWorker" ELSE "sleep"
       /\ (cycle'.state = "completed" /\ cycle.state # "completed")
          => (Len(cycle'.commits) = 2 /\ subPc' = "sleep")]_vars

\* A cycle that polled no queue completed: its queue commit raised, its worker
\* commit was made.
C12_Witness ==
    /\ subPc = "sleep"
    /\ cycle.state = "completed"
    /\ cycle.polled = <<>>
    /\ cycle.commits = <<"AttributeError", "ok">>

\* C13: a loop ends only on KeyboardInterrupt/SystemExit, and then it does end;
\* any other exception is logged and leaves the loop running: the Collector
\* goes on to another connection attempt, the Submitter to another cycle
\* (unless a signal ends it first).
C13_LoopsSurvive ==
    /\ [][/\ (colPc' = "done" /\ colPc # "done")
             => (last'.type = "signal" /\ last'.loop = "Collector")
          /\ (subPc' = "done" /\ subPc # "done")
             => (last'.type = "signal" /\ last'.loop = "Submitter")
          /\ (last'.type = "signal")
             => (IF last'.loop = "Collector" THEN colPc' = "done" ELSE subPc' = "done")
          /\ (last'.type = "error" /\ log' = "exception")
             => (colPc' = "retry")
          /\ (cycle'.state = "failed" /\ cycle.state # "failed")
             => (subPc' = "sleep" /\ log' = "exception")]_vars
    /\ (colPc = "retry" ~> colPc = "connect")
    /\ ((subPc = "sleep" /\ cycle.state = "failed") ~> subPc \in {"queues", "done"})

\* The Collector, after an exception, is at a new connection attempt while the
\* Submitter, after an exception of its own, waits for its next cycle.
C13_Witness ==
    /\ last.type = "retry"
    /\ colPc = "connect"
    /\ subPc = "sleep"
    /\ cycle.state = "failed"

\* The handled events of the stream, and the events of identifier u among the
\* entries of a kind.
Runs == Entries("run")
EventsOf(kind, u) ==
    LET own == SelectSeq(Entries(kind),
                         LAMBDA entry : Has(entry.event, "uuid") /\ entry.event.uuid = u)
    IN  [i \in 1 .. Len(own) |-> own[i].event]

\* C14: an exception raised while a task event is handled is caught and logged
\* inside task_handler, the Collector keeps capturing, no spawned handler is
\* lost, and a well-formed received event emits its metric whatever was
\* handled before it.
C14_ExceptionContained ==
    /\ (trace # <<>>) => colPc = "capture"
    /\ Len(Entries("spawn")) = Len(Runs) + Len(spawned)
    /\ \A i \in 1 .. Len(Runs) :
         /\ Runs[i].log \in {"none", "error", "exception"}
         /\ (/\ Runs[i].event.type = "task-received"
             /\ DOMAIN Runs[i].event = {"type", "uuid", "name", "timestamp"})
            => Runs[i].out = <<TaskStats(Runs[i].event.name, "received", 0)>>

\* A handler raised, and a handler run after it emitted its metric.
C14_Witness ==
    \E i \in 1 .. Len(Runs) : \E j \in 1 .. Len(Runs) :
        /\ i < j
        /\ Runs[i].log = "exception"
        /\ Runs[j].out # <<>>

C16_RecordStable ==
    [][(/\ last'.type \in StartedOrTerminal
        /\ Has(last', "uuid")
        /\ Has(last', "timestamp")
        /\ Tracked(tuids, last'.uuid, now))
       => log' # "exception"]_vars

\* C17: a task event leaves the heartbeat set alone; a worker-heartbeat and a
\* worker-online event add their hostname to it, both alike, emit nothing and
\* leave the task store alone; an event of another type changes neither and
\* emits nothing.
C17_RoutedByType ==
    [][/\ last'.type \in TaskTypes => heartbeats' = heartbeats
       /\ last'.type \in WorkerTypes
          => /\ tuids' = tuids
             /\ out' = <<>>
             /\ heartbeats' =
                  heartbeats \cup (IF Has(last', "hostname") THEN {last'.hostname} ELSE {})
       /\ last' \in OtherEvents
          => (tuids' = tuids /\ heartbeats' = heartbeats /\ out' = <<>>)]_vars

\* worker-online added a hostname that worker-heartbeat had not, with a record
\* in the task store.
C17_Witness ==
    /\ last.type = "worker-online"
    /\ Has(last, "hostname")
    /\ heartbeats = Hostnames
    /\ seen[last.hostname] = 1
    /\ tuids # <<>>

\* C18: a sent event creates no entry, changes no entry, and removes no entry
\* that a lookup would still find: the findable records are the same before
\* and after, and every entry left is an entry that was there.
C18_SentLeavesStore ==
    [][last'.type = "task-sent"
       => /\ Findable(tuids', now') = Findable(tuids, now')
          /\ \A i \in 1 .. Len(tuids') : \E j \in 1 .. Len(tuids) : tuids'[i] = tuids[j]
          /\ \A item \in dropped' : ~IsFresh(item, now')]_vars

\* A sent event for a tracked identifier emitted its metric.
C18_Witness ==
    /\ Handled({"task-sent"})
    /\ Tracked(tuids, last.uuid, now)
    /\ Item(tuids, last.uuid).value.started # 0
    /\ out = <<TaskStats("add", "sent", 0)>>

\* The handled events of identifier u in the stream, with what each emitted.
RunsOf(u) ==
    SelectSeq(Runs, LAMBDA entry : Has(entry.event, "uuid") /\ entry.event.uuid = u)

\* C19: after a terminal event for an identifier emitted its metric, a started
\* or terminal event for it emits nothing unless a received event for it was
\* handled in between.
C19_OneTerminalMetric ==
    \A u \in {"u1", "u2"} :
        \A i \in 1 .. Len(RunsOf(u)) : \A j \in 1 .. Len(RunsOf(u)) :
            (/\ i < j
             /\ RunsOf(u)[i].event.type \in TerminalTypes
             /\ RunsOf(u)[i].out # <<>>
             /\ RunsOf(u)[j].event.type \in StartedOrTerminal
             /\ \A k \in (i + 1) .. (j - 1) : RunsOf(u)[k].event.type # "task-received")
            => RunsOf(u)[j].out = <<>>

\* received, a terminal event that emitted, and a second terminal event that
\* did not, all for one identifier.
C19_Witness ==
    \E u \in {"u1", "u2"} :
        /\ Len(RunsOf(u)) = 3
        /\ RunsOf(u)[1].event.type = "task-received"
        /\ RunsOf(u)[2].event.type \in TerminalTypes
        /\ RunsOf(u)[2].out # <<>>
        /\ RunsOf(u)[3].event.type \in TerminalTypes
        /\ RunsOf(u)[3].out = <<>>
        /\ RunsOf(u)[3].log = "none"

\* The event lacks a field the handler reads on the path the store d, looked up
\* at time t, sends it down.
MissingRequired(event, d, t) ==
    \/ ~Has(event, "uuid")
    \/ event.type = "task-received" /\ (~Has(event, "name") \/ ~Has(event, "timestamp"))
    \/ /\ event.type = "task-started"
       /\ Tracked(d, event.uuid, t)
       /\ ~Has(event, "timestamp")
    \/ /\ event.type \in TerminalTypes
       /\ Tracked(d, event.uuid, t)
       /\ Item(d, event.uuid).value.name # ""
       /\ Item(d, event.uuid).value.started # 0
       /\ ~Has(event, "timestamp")

\* C20: a task event that lacks a required field (uuid; name or timestamp on
\* received; timestamp on started, or on a terminal event of a started task)
\* raises inside the handler, emits no metric and leaves the store as it was.
C20_RaiseLeavesStore ==
    [][(last'.type \in TaskTypes /\ MissingRequired(last', tuids, now'))
       => (log' = "exception" /\ out' = <<>> /\ tuids' = tuids)]_vars

\* A terminal event without timestamp raised on a started record, which is
\* still in the store.
C20_Witness ==
    /\ Handled(TerminalTypes)
    /\ ~Has(last, "timestamp")
    /\ log = "exception"
    /\ Tracked(tuids, last.uuid, now)
    /\ Item(tuids, last.uuid).value.started # 0

====
